---------------------------- MODULE Spec2Model ----------------------------
(* Usage metering and plan entitlement of the ArchiLex server:              *)
(* server/routes.ts (checkAndIncrementUsage, the plan routes) and           *)
(* server/storage.ts (incrementUsageCount, updateUserPlan,                  *)
(* updateUserSubscription), acting on one row of the users table.           *)
EXTENDS Integers, Sequences, FiniteSets, TLC

(***************************************************************************)
(* Bounds of the model.                                                    *)
(***************************************************************************)
\* The clock counts ticks; a calendar month holds TicksPerMonth of them and a
\* year MonthsPerYear months (a shortened calendar: only equality of months
\* and of years is ever inspected by the code).
TicksPerMonth == 2
MonthsPerYear == 2
\* Last tick the clock reaches.
MaxTime == 5
\* The usage counter is not incremented beyond this value.
MaxUses == 202
\* Refused requests recorded per calendar month.
MaxDenied == 2
\* Ticks that may pass between the gate's clock read and the increment's.
MaxCallTicks == 1

\* How far below its plan's quota an account of SpecTools starts.
ToolWindow == 2

\* Tool requests followed in one calendar month in SpecTools.
MaxToolCalls == 3

\* Rows the projects table and the project_notes table can hold.
MaxProjects == 2

MaxNotes == 2
\* Requests in flight at the same time.
NProcs == 2
\* Concurrent runs start at most this far below a plan's quota.
ConcWindow == 2

(***************************************************************************)
(* Values.                                                                 *)
(***************************************************************************)
\* JavaScript null, as the limit of an unmetered plan.
NULL == -1

\* A column that holds SQL NULL.
NoId == "null"

\* The registry with the free quota mistyped.
PLAN_LIMITS_freeTwenty ==
    [free |-> 20, starter |-> 50, professional |-> 200,
     unlimited |-> NULL, pro |-> NULL]

\* routes.ts: the plan registry.
PLAN_LIMITS ==
    [free |-> 10, starter |-> 50, professional |-> 200,
     unlimited |-> NULL, pro |-> NULL]

\* stripe.ts: the plans a checkout session can be created for.
PLAN_PRICES == {"starter", "professional", "unlimited"}

\* Plan strings a request body can carry to PATCH /api/admin/users/:id/plan
\* (the route stores req.body.plan as it is).
SubmittedPlans == DOMAIN PLAN_LIMITS \cup {"enterprise"}

\* `PLAN_LIMITS[user.plan] ?? null`: a missing key reads undefined, and
\* undefined ?? null is null.
PlanLimit(plan) ==
    IF plan \in DOMAIN PLAN_LIMITS THEN PLAN_LIMITS[plan] ELSE NULL

FiniteQuota(plan) == PlanLimit(plan) # NULL

(***************************************************************************)
(* Dates.                                                                  *)
(***************************************************************************)
\* A month number that changes with every tick.
getMonth_byTick(d) == d % MonthsPerYear

getMonth(d) == (d \div TicksPerMonth) % MonthsPerYear

getFullYear(d) == d \div (TicksPerMonth * MonthsPerYear)

\* The comparison of the month alone, the year left out.
sameMonth_monthOnly(t, lastReset) == getMonth(t) = getMonth(lastReset)

\* `now.getMonth() === lastReset.getMonth() &&
\*  now.getFullYear() === lastReset.getFullYear()`
sameMonth(t, lastReset) ==
    /\ getMonth(t) = getMonth(lastReset)
    /\ getFullYear(t) = getFullYear(lastReset)

\* The calendar month a tick lies in, numbered from the first one.
Period(d) == d \div TicksPerMonth

Min(a, b) == IF a <= b THEN a ELSE b

(***************************************************************************)
(* State.                                                                  *)
(***************************************************************************)
VARIABLES
    user,    \* the account's row of the users table
    now,     \* the wall clock, in ticks
    last,    \* the request served last: what it was, its outcome, the row its
             \* getUser returned
    ledger,  \* what has happened in the calendar month of `now`
    procs,   \* the requests in flight: where each stands and what it has read
    mail,    \* the emails the gate has handed to sendEmail in the month of `now`
    client,  \* the row the browser holds (`user` of client/src/lib/auth.tsx)
    store    \* the projects and project_notes tables

vars == <<user, now, last, ledger, procs, mail, client, store>>

\* A row created with the free quota already used.
NewUser_atQuota(t) ==
    [plan |-> "free", usesThisMonth |-> 10, lastResetDate |-> t,
     stripeCustomerId |-> NoId, stripeSubscriptionId |-> NoId]

\* schema: a row as createUser leaves it (column defaults).
NewUser(t) ==
    [plan |-> "free", usesThisMonth |-> 0, lastResetDate |-> t,
     stripeCustomerId |-> NoId, stripeSubscriptionId |-> NoId]

\* `db.update(users).set(values).where(eq(users.id, id)).returning()`:
\* the row with the named columns overwritten.
dbUpdate(row, values) ==
    [c \in DOMAIN row |-> IF c \in DOMAIN values THEN values[c] ELSE row[c]]

(***************************************************************************)
(* storage.ts                                                              *)
(***************************************************************************)
\* The increment without the rollover branch.
incrementValues_noReset(u, t) ==
    [usesThisMonth |-> u.usesThisMonth + 1]

\* The rollover test on the month number alone.
incrementValues_monthOnly(u, t) ==
    IF getMonth(t) # getMonth(u.lastResetDate)
    THEN [usesThisMonth |-> 1, lastResetDate |-> t]
    ELSE [usesThisMonth |-> u.usesThisMonth + 1]

\* An increment that moves the anchor every time.
incrementValues_alwaysAnchor(u, t) ==
    IF ~sameMonth(t, u.lastResetDate)
    THEN [usesThisMonth |-> 1, lastResetDate |-> t]
    ELSE [usesThisMonth |-> u.usesThisMonth + 1, lastResetDate |-> t]

\* incrementUsageCount, lines 164-177: the columns it sets, computed from the
\* row it read (`u`) and its clock read (`t`).
incrementValues(u, t) ==
    IF ~sameMonth(t, u.lastResetDate)
    THEN [usesThisMonth |-> 1, lastResetDate |-> t]
    ELSE [usesThisMonth |-> u.usesThisMonth + 1]

\* incrementUsageCount with no other request between its read and its write.
incrementUsageCount(row, t) == dbUpdate(row, incrementValues(row, t))

\* A plan change that also starts a new usage period.
updateUserPlan_resetsUsage(row, plan, stripeSubscriptionId) ==
    dbUpdate(row, [plan |-> plan, usesThisMonth |-> 0])

updateUserPlan(row, plan, stripeSubscriptionId) ==
    dbUpdate(row,
        IF stripeSubscriptionId # NoId
        THEN [plan |-> plan, stripeSubscriptionId |-> stripeSubscriptionId]
        ELSE [plan |-> plan])

\* A subscription that also starts a new usage period.
updateUserSubscription_resetsUsage(row, stripeCustomerId, stripeSubscriptionId, plan) ==
    dbUpdate(row,
        [stripeCustomerId |-> stripeCustomerId,
         stripeSubscriptionId |-> stripeSubscriptionId,
         plan |-> plan, usesThisMonth |-> 0])

updateUserSubscription(row, stripeCustomerId, stripeSubscriptionId, plan) ==
    dbUpdate(row,
        [stripeCustomerId |-> stripeCustomerId,
         stripeSubscriptionId |-> stripeSubscriptionId,
         plan |-> plan])

(***************************************************************************)
(* routes.ts: checkAndIncrementUsage                                       *)
(***************************************************************************)
\* The ternary of line 71 with its branches swapped.
currentCount_swapped(u, t) ==
    IF sameMonth(t, u.lastResetDate) THEN 0 ELSE u.usesThisMonth

\* line 71: `sameMonth ? user.usesThisMonth : 0`
currentCount(u, t) ==
    IF sameMonth(t, u.lastResetDate) THEN u.usesThisMonth ELSE 0

\* The gate refusing one request early.
gateDecision_offByOne(u, t) ==
    LET limit == PlanLimit(u.plan) IN
    IF limit = NULL THEN "Allowed"
    ELSE IF (IF sameMonth(t, u.lastResetDate) THEN u.usesThisMonth ELSE 0) + 1 >= limit
         THEN "Denied"
    ELSE "Allowed"

\* The gate comparing with > in place of >=.
gateDecision_strict(u, t) ==
    LET limit == PlanLimit(u.plan) IN
    IF limit = NULL THEN "Allowed"
    ELSE IF (IF sameMonth(t, u.lastResetDate) THEN u.usesThisMonth ELSE 0) > limit
         THEN "Denied"
    ELSE "Allowed"

\* The gate without the branch for a null limit (null compares as 0).
gateDecision_noNullBranch(u, t) ==
    LET limit == IF PlanLimit(u.plan) = NULL THEN 0 ELSE PlanLimit(u.plan) IN
    IF (IF sameMonth(t, u.lastResetDate) THEN u.usesThisMonth ELSE 0) >= limit
    THEN "Denied"
    ELSE "Allowed"

\* lines 63-88: what the gate decides from the row it read and its clock read.
gateDecision(u, t) ==
    LET limit == PlanLimit(u.plan) IN
    IF limit = NULL THEN "Allowed"
    ELSE IF currentCount(u, t) >= limit THEN "Denied"
    ELSE "Allowed"

\* The warning threshold computed with 0.9 in place of 0.8.
warningThreshold_ninety(limit) == (limit * 9) \div 10

\* line 93: `Math.floor(limit * 0.8)`.
warningThreshold(limit) == (limit * 8) \div 10

\* The usage-limit-reached email on every refusal.
gateEmail_everyDenial(u, t, updated) ==
    LET limit == PlanLimit(u.plan) IN
    IF limit = NULL THEN "none"
    ELSE IF currentCount(u, t) >= limit THEN "usageLimitReached"
    ELSE IF limit # 0 /\ updated.usesThisMonth = warningThreshold(limit)
         THEN "usageWarning80"
    ELSE "none"

\* lines 81-86 and 93-98: the email template the gate hands to sendEmail,
\* from the row it read (`u`), its clock read (`t`) and, when the request is
\* let through, the row incrementUsageCount returned (`updated`).
gateEmail(u, t, updated) ==
    LET limit == PlanLimit(u.plan) IN
    IF limit = NULL THEN "none"
    ELSE IF currentCount(u, t) >= limit
         THEN (IF currentCount(u, t) = limit THEN "usageLimitReached" ELSE "none")
    ELSE IF limit # 0 /\ updated.usesThisMonth = warningThreshold(limit)
         THEN "usageWarning80"
    ELSE "none"

\* What the mail transport can do with a message.
Transports == {"ok", "failed"}

\* email.ts lines 15-29: the promise sendEmail returns (it logs a transport
\* error and throws it again).
sendEmail(transport) == IF transport = "ok" THEN "resolved" ELSE "rejected"

\* The gate awaiting sendEmail with no catch: a rejection is thrown on.
notify_awaited(email, transport) ==
    IF email = "none" THEN "none"
    ELSE IF sendEmail(transport) = "rejected" THEN "thrown"
    ELSE "delivered"

\* lines 82-85 and 94-97: `sendEmail({...}).catch(console.error)`, not
\* awaited: a rejection is logged and goes no further.
notify(email, transport) ==
    IF email = "none" THEN "none"
    ELSE IF sendEmail(transport) = "rejected" THEN "logged"
    ELSE "delivered"

\* What the calling route answers: the gate's decision, or the 500 of the
\* route's catch block when the gate throws (lines 238-242).
routeResult(decision, notified) ==
    IF notified = "thrown" THEN "Error" ELSE decision

(***************************************************************************)
(* Bookkeeping of the month of `now` (not program state).                  *)
(***************************************************************************)
NewLedger(t, used) ==
    [period |-> Period(t), calls |-> 0, allowed |-> used, denied |-> 0,
     changed |-> FALSE]

\* The ledger of the month tick t lies in.
LedgerAt(l, t) == IF Period(t) = l.period THEN l ELSE NewLedger(t, 0)

Procs == 1 .. NProcs

NoValues == [none |-> TRUE]

\* A request that has not reached the gate.
Idle == [pc |-> "idle", u |-> NewUser(0), values |-> NoValues,
         result |-> "none"]

NoRequest == [op |-> "none", result |-> "none", read |-> NewUser(0),
              t1 |-> 0, t2 |-> 0, email |-> "none", notified |-> "none",
              tool |-> "none", valid |-> TRUE, produced |-> FALSE,
              missing |-> "none", by |-> "none", owner |-> "none"]

\* No row: what getUser returns, and what is stored, once the account is
\* deleted.
Absent == [absent |-> TRUE]

ProjectIds == 1 .. MaxProjects

NoteIds == 1 .. MaxNotes

\* The projects and project_notes tables with no row.
NoProjects ==
    [projects |-> [id \in ProjectIds |-> Absent],
     notes |-> [id \in NoteIds |-> Absent]]

\* The emails the gate handed to sendEmail, and the requests it refused, in
\* the month of `t` (not program state; followed in SpecMail only).
NewMail(t) == [period |-> Period(t), sent80 |-> 0, sent100 |-> 0, denied |-> 0]

\* The mail ledger carried to time t.
MailAt(m, t) == IF Period(t) = m.period THEN m ELSE NewMail(t)

\* The mail ledger with one more email of a kind handed to sendEmail.
Sent(m, email) ==
    [m EXCEPT !.sent80 = IF email = "usageWarning80" THEN @ + 1 ELSE @,
              !.sent100 = IF email = "usageLimitReached" THEN @ + 1 ELSE @]

Init ==
    /\ now = 0
    /\ user = NewUser(0)
    /\ last = NoRequest
    /\ ledger = NewLedger(0, 0)
    /\ procs = [p \in Procs |-> Idle]
    /\ mail = NewMail(now)
    /\ client = user
    /\ store = NoProjects

(***************************************************************************)
(* Requests, each served with no other request in between.                 *)
(***************************************************************************)
\* The clock advances.
Tick ==
    /\ now < MaxTime
    /\ now' = now + 1
    /\ ledger' = LedgerAt(ledger, now + 1)
    /\ last' = [NoRequest EXCEPT !.op = "tick", !.t1 = now, !.t2 = now + 1]
    /\ UNCHANGED <<user, procs, mail, client, store>>

\* checkAndIncrementUsage refusing the request (lines 73-88).
CheckDenied ==
    /\ gateDecision(user, now) = "Denied"
    /\ ledger.denied < MaxDenied
    /\ \E transport \in Transports :
        LET email == gateEmail(user, now, user)
            notified == notify(email, transport) IN
        /\ email = "none" => transport = "ok"
        /\ last' = [NoRequest EXCEPT !.op = "consume",
                        !.result = routeResult("Denied", notified),
                        !.read = user, !.t1 = now, !.t2 = now,
                        !.email = email, !.notified = notified]
        /\ ledger' = [ledger EXCEPT !.calls = @ + 1, !.denied = @ + 1]
    /\ UNCHANGED <<user, now, procs, mail, client, store>>

\* checkAndIncrementUsage letting the request through (lines 64-67, 90-100):
\* the gate reads the clock at `now`, incrementUsageCount at t2.
CheckAllowed ==
    /\ gateDecision(user, now) = "Allowed"
    /\ \E t2 \in now .. Min(now + MaxCallTicks, MaxTime) :
       \E transport \in Transports :
        LET updated == incrementUsageCount(user, t2)
            email == gateEmail(user, now, updated)
            notified == notify(email, transport) IN
        /\ updated.usesThisMonth <= MaxUses
        /\ email = "none" => transport = "ok"
        /\ user' = updated
        /\ now' = t2
        /\ last' = [NoRequest EXCEPT !.op = "consume",
                        !.result = routeResult("Allowed", notified),
                        !.read = user, !.t1 = now, !.t2 = t2,
                        !.email = email, !.notified = notified]
        /\ ledger' = [LedgerAt(ledger, t2) EXCEPT !.calls = @ + 1,
                                                  !.allowed = @ + 1]
    /\ UNCHANGED <<procs, mail, client, store>>

\* PATCH /api/admin/users/:id/plan: the plan of the request body is stored;
\* the route reads no row.
AdminSetPlan ==
    \E plan \in SubmittedPlans :
        /\ user' = updateUserPlan(user, plan, NoId)
        /\ last' = [NoRequest EXCEPT !.op = "adminPlan", !.t1 = now, !.t2 = now]
        /\ ledger' = [ledger EXCEPT !.changed = @ \/ plan # user.plan]
        /\ UNCHANGED <<now, procs, mail, client, store>>

\* POST /api/subscription/cancel, the subscription cancelled at Stripe: the
\* row is read (line 512) and its plan set to free.
CancelSubscription ==
    /\ user.stripeSubscriptionId # NoId
    /\ user' = updateUserPlan(user, "free", NoId)
    /\ last' = [NoRequest EXCEPT !.op = "cancel", !.read = user,
                                 !.t1 = now, !.t2 = now]
    /\ ledger' = [ledger EXCEPT !.changed = @ \/ user.plan # "free"]
    /\ UNCHANGED <<now, procs, mail, client, store>>

\* POST /api/webhooks/stripe, event checkout.session.completed: the plan and
\* the Stripe identifiers are stored, then the row is read (line 554).
StripeWebhook ==
    \E plan \in PLAN_PRICES :
        /\ user' = updateUserSubscription(user, "cus_1", "sub_1", plan)
        /\ last' = [NoRequest EXCEPT !.op = "webhook", !.read = user',
                                     !.t1 = now, !.t2 = now]
        /\ ledger' = [ledger EXCEPT !.changed = @ \/ plan # user.plan]
        /\ UNCHANGED <<now, procs, mail, client, store>>

Next ==
    \/ Tick
    \/ CheckDenied
    \/ CheckAllowed
    \/ AdminSetPlan
    \/ CancelSubscription
    \/ StripeWebhook

Spec == Init /\ [][Next]_vars

(***************************************************************************)
(* Requests in flight together: every await of checkAndIncrementUsage and  *)
(* of incrementUsageCount is a point where another request's step, or a    *)
(* tick of the clock, can come in between.                                 *)
(***************************************************************************)
\* Usage counts a concurrent run starts from: near the quota of a metered
\* plan, near 0 on an unmetered one.
ConcInitUses(plan) ==
    IF PlanLimit(plan) = NULL
    THEN 0 .. ConcWindow
    ELSE (PlanLimit(plan) - ConcWindow) .. PlanLimit(plan)

InitConc ==
    /\ now \in 0 .. TicksPerMonth
    /\ \E plan \in {"free", "starter", "unlimited"} :
       \E n \in ConcInitUses(plan) :
       \E anchor \in 0 .. now :
           user = [NewUser(anchor) EXCEPT !.plan = plan, !.usesThisMonth = n]
    /\ last = NoRequest
    /\ ledger = NewLedger(now, currentCount(user, now))
    /\ procs = [p \in Procs |-> Idle]
    /\ mail = NewMail(now)
    /\ client = user
    /\ store = NoProjects

\* routes.ts line 61: `await storage.getUser(userId)`.
GateGetUser(p) ==
    /\ procs[p].pc = "idle"
    /\ procs' = [procs EXCEPT ![p].pc = "gate", ![p].u = user]
    /\ UNCHANGED <<user, now, last, ledger, mail, client, store>>

\* routes.ts lines 63-90, on the row read at line 61: refuse, or go on to
\* storage.incrementUsageCount.
GateCheck(p) ==
    /\ procs[p].pc = "gate"
    /\ IF gateDecision(procs[p].u, now) = "Denied"
       THEN /\ procs' = [procs EXCEPT ![p].pc = "done", ![p].result = "Denied"]
            /\ ledger' = [ledger EXCEPT !.calls = @ + 1, !.denied = @ + 1]
       ELSE /\ procs' = [procs EXCEPT ![p].pc = "increment"]
            /\ UNCHANGED ledger
    /\ UNCHANGED <<user, now, last, mail, client, store>>

\* storage.ts line 161: `await this.getUser(id)`.
IncGetUser(p) ==
    /\ procs[p].pc = "increment"
    /\ procs' = [procs EXCEPT ![p].pc = "read", ![p].u = user]
    /\ UNCHANGED <<user, now, last, ledger, mail, client, store>>

\* storage.ts lines 164-177: the clock read and the columns to set.
IncCompute(p) ==
    /\ procs[p].pc = "read"
    /\ procs' = [procs EXCEPT ![p].pc = "write",
                              ![p].values = incrementValues(procs[p].u, now)]
    /\ UNCHANGED <<user, now, last, ledger, mail, client, store>>

\* storage.ts lines 169-173, 176-180: the UPDATE reaches the database;
\* checkAndIncrementUsage then returns true.
IncUpdate(p) ==
    /\ procs[p].pc = "write"
    /\ user' = dbUpdate(user, procs[p].values)
    /\ procs' = [procs EXCEPT ![p].pc = "done", ![p].result = "Allowed"]
    /\ ledger' = [ledger EXCEPT !.calls = @ + 1, !.allowed = @ + 1]
    /\ UNCHANGED <<now, last, mail, client, store>>

ClockTick ==
    /\ now < MaxTime
    /\ now' = now + 1
    /\ ledger' = LedgerAt(ledger, now + 1)
    /\ UNCHANGED <<user, last, procs, mail, client, store>>

NextConc ==
    \/ \E p \in Procs : GateGetUser(p)
    \/ \E p \in Procs : GateCheck(p)
    \/ \E p \in Procs : IncGetUser(p)
    \/ \E p \in Procs : IncCompute(p)
    \/ \E p \in Procs : IncUpdate(p)
    \/ ClockTick

SpecConc == InitConc /\ [][NextConc]_vars

\* C3: with requests for one account on a finite-quota plan in flight
\* together, the number of requests let through in a month never exceeds the
\* quota, and the stored usage count of the month never exceeds the quota.
C3_ConcurrentNeverOverQuota ==
    FiniteQuota(user.plan)
    => /\ ledger.allowed <= PlanLimit(user.plan)
       /\ currentCount(user, now) <= PlanLimit(user.plan)

\* C4: no increment is lost. While the row is Current, its usage count is
\* the count the month started the run with plus the number of increments
\* completed in the month.
C4_NoLostIncrement ==
    Period(user.lastResetDate) = Period(now)
    => user.usesThisMonth = ledger.allowed

\* C25: with increments in flight together, a Current row never counts more
\* than the increments completed in its month (the count never comes from one
\* period and the anchor from another), and when every request in flight has
\* detected the rollover and written, the count is the number of requests.
C25_ResetTogether ==
    /\ Period(user.lastResetDate) = Period(now)
       => user.usesThisMonth <= ledger.allowed
    /\ ( \A p \in Procs :
            /\ procs[p].pc = "done"
            /\ procs[p].result = "Allowed"
            /\ "lastResetDate" \in DOMAIN procs[p].values
            /\ Period(procs[p].values.lastResetDate) = Period(now) )
       => user.usesThisMonth = NProcs

(***************************************************************************)
(* One request through the gate while an admin deletes the account:        *)
(* DELETE /api/admin/users/:id (routes.ts 467-475, storage.ts 128-136) can *)
(* land at any await of checkAndIncrementUsage and incrementUsageCount.    *)
(***************************************************************************)
\* The request followed.
Caller == 1

\* routes.ts line 61: `await storage.getUser(userId)`.
DelGateGetUser ==
    /\ procs[Caller].pc = "idle"
    /\ procs' = [procs EXCEPT ![Caller].pc = "gate", ![Caller].u = user]
    /\ UNCHANGED <<user, now, last, ledger, mail, client, store>>

\* routes.ts lines 62-88: 401 when no row was read, the refusal, or on to
\* storage.incrementUsageCount.
DelGateCheck ==
    /\ procs[Caller].pc = "gate"
    /\ LET u == procs[Caller].u IN
       IF u = Absent
       THEN /\ procs' = [procs EXCEPT ![Caller].pc = "done",
                                       ![Caller].result = "NotFound"]
            /\ last' = [NoRequest EXCEPT !.op = "consume",
                            !.result = "NotFound", !.missing = "gate",
                            !.t1 = now, !.t2 = now]
       ELSE IF gateDecision(u, now) = "Denied"
       THEN \E transport \in Transports :
            LET email == gateEmail(u, now, u)
                notified == notify(email, transport) IN
            /\ email = "none" => transport = "ok"
            /\ procs' = [procs EXCEPT ![Caller].pc = "done",
                                      ![Caller].result = "Denied"]
            /\ last' = [NoRequest EXCEPT !.op = "consume",
                            !.result = routeResult("Denied", notified),
                            !.read = u, !.t1 = now, !.t2 = now,
                            !.email = email, !.notified = notified]
       ELSE /\ procs' = [procs EXCEPT ![Caller].pc = "increment"]
            /\ UNCHANGED last
    /\ UNCHANGED <<user, now, ledger, mail, client, store>>

\* storage.ts lines 161-177: getUser again, `throw new Error("User not
\* found")` when no row comes back (the route's catch answers 500), else the
\* columns to set.
DelIncGetUser ==
    /\ procs[Caller].pc = "increment"
    /\ IF user = Absent
       THEN /\ procs' = [procs EXCEPT ![Caller].pc = "done",
                                       ![Caller].result = "Error"]
            /\ last' = [NoRequest EXCEPT !.op = "consume",
                            !.result = "Error", !.missing = "increment",
                            !.read = procs[Caller].u, !.t1 = now, !.t2 = now]
       ELSE /\ procs' = [procs EXCEPT ![Caller].pc = "write",
                              ![Caller].u = user,
                              ![Caller].values = incrementValues(user, now)]
            /\ UNCHANGED last
    /\ UNCHANGED <<user, now, ledger, mail, client, store>>

\* storage.ts lines 169-180 and routes.ts lines 64-67, 90-100: the UPDATE.
\* With the row gone it matches nothing and `result[0]` is undefined: the
\* null-limit branch returns true without looking at it, the other branch
\* reads `updatedUser.usesThisMonth` and throws.
DelIncUpdate ==
    /\ procs[Caller].pc = "write"
    /\ LET u == procs[Caller].u IN
       IF user = Absent
       THEN LET result == IF PlanLimit(u.plan) = NULL
                          THEN "Allowed" ELSE "Error" IN
            /\ user' = user
            /\ procs' = [procs EXCEPT ![Caller].pc = "done",
                                      ![Caller].result = result]
            /\ last' = [NoRequest EXCEPT !.op = "consume",
                            !.result = result, !.missing = "update",
                            !.read = u, !.t1 = now, !.t2 = now]
       ELSE \E transport \in Transports :
            LET updated == dbUpdate(user, procs[Caller].values)
                email == gateEmail(u, now, updated)
                notified == notify(email, transport) IN
            /\ email = "none" => transport = "ok"
            /\ user' = updated
            /\ procs' = [procs EXCEPT ![Caller].pc = "done",
                                      ![Caller].result = "Allowed"]
            /\ last' = [NoRequest EXCEPT !.op = "consume",
                            !.result = routeResult("Allowed", notified),
                            !.read = u, !.t1 = now, !.t2 = now,
                            !.email = email, !.notified = notified]
    /\ UNCHANGED <<now, ledger, mail, client, store>>

\* DELETE /api/admin/users/:id: storage.deleteUser removes the users row.
DeleteUser ==
    /\ user # Absent
    /\ user' = Absent
    /\ UNCHANGED <<now, last, ledger, procs, mail, client, store>>

NextDelete ==
    \/ DelGateGetUser
    \/ DelGateCheck
    \/ DelIncGetUser
    \/ DelIncUpdate
    \/ DeleteUser

SpecDelete == InitConc /\ [][NextDelete]_vars

\* C24: a request whose account is there at every read and write of the gate
\* is answered Allowed or Denied (the gate does not throw); a request that
\* finds the account gone, at the gate's read or at the read or the write of
\* the increment, is answered with an error that is neither, sends no email
\* and increments nothing.
C24_MissingAccountIsLookupError ==
    last.op = "consume"
    => /\ last.missing = "none" => last.result \in {"Allowed", "Denied"}
       /\ last.missing # "none"
          => /\ last.result \in {"NotFound", "Error"}
             /\ last.email = "none"
             /\ user = Absent

(***************************************************************************)
(* The gate's emails over a month: the gate, the plan route and the clock, *)
(* with the emails handed to sendEmail counted per calendar month.         *)
(***************************************************************************)
\* The plans the plan route is given while the emails are counted.
MailPlans == {"free", "starter"}

InitMail ==
    /\ now = 0
    /\ user = NewUser(0)
    /\ last = NoRequest
    /\ ledger = NewLedger(0, 0)
    /\ procs = [p \in Procs |-> Idle]
    /\ mail = NewMail(0)
    /\ client = user
    /\ store = NoProjects

\* checkAndIncrementUsage (lines 60-101), served within one tick.
MailConsume ==
    \E transport \in Transports :
        LET decision == gateDecision(user, now)
            updated == IF decision = "Allowed"
                       THEN incrementUsageCount(user, now) ELSE user
            email == gateEmail(user, now, updated)
            notified == notify(email, transport) IN
        /\ email = "none" => transport = "ok"
        /\ decision = "Denied" => mail.denied < MaxDenied
        /\ updated.usesThisMonth <= MaxUses
        /\ user' = updated
        /\ last' = [NoRequest EXCEPT !.op = "consume",
                        !.result = routeResult(decision, notified),
                        !.read = user, !.t1 = now, !.t2 = now,
                        !.email = email, !.notified = notified]
        /\ mail' = Sent([mail EXCEPT !.denied =
                             IF decision = "Denied" THEN @ + 1 ELSE @], email)
        /\ UNCHANGED <<now, ledger, procs, client, store>>

\* PATCH /api/admin/users/:id/plan (lines 455-465).
MailSetPlan ==
    \E plan \in MailPlans \ {user.plan} :
        /\ user' = updateUserPlan(user, plan, NoId)
        /\ last' = [NoRequest EXCEPT !.op = "adminPlan", !.t1 = now, !.t2 = now]
        /\ UNCHANGED <<now, ledger, procs, mail, client, store>>

\* The clock advances; a new month starts a new count of emails.
MailTick ==
    /\ now < MaxTime
    /\ now' = now + 1
    /\ mail' = MailAt(mail, now + 1)
    /\ last' = [NoRequest EXCEPT !.op = "tick", !.t1 = now, !.t2 = now + 1]
    /\ UNCHANGED <<user, ledger, procs, client, store>>

NextMail == MailConsume \/ MailSetPlan \/ MailTick

SpecMail == InitMail /\ [][NextMail]_vars

\* C11: in any one calendar month the usage-limit-reached email is handed to
\* sendEmail at most once, and a request refused at the quota finds it sent
\* once: repeated refused requests add no second email.
C11_LimitEmailOncePerPeriod ==
    /\ mail.sent100 <= 1
    /\ (/\ last.op = "consume"
        /\ last.result = "Denied"
        /\ currentCount(last.read, last.t1) = PlanLimit(last.read.plan))
       => mail.sent100 = 1

\* C12: in any one calendar month the 80% warning email is handed to
\* sendEmail at most once, whatever requests and plan changes the month holds.
C12_WarningAtMostOncePerPeriod == mail.sent80 <= 1

(***************************************************************************)
(* The tools: the routes that call the gate (routes.ts) and the pages that *)
(* compute in the browser (TeeCalculator.tsx, BlueprintAnalysis.tsx), with *)
(* the row the browser holds.                                              *)
(***************************************************************************)
\* The tools whose operation runs on the server, behind their own route.
ServerTools == {"ask", "analyze", "checklist", "report"}

\* The tools whose operation runs in the browser; their request is
\* POST /api/usage/increment.
ClientTools == {"tee", "cost"}

Tools == ServerTools \cup ClientTools

\* Every route checking the request before it calls the gate.
validatesFirst_everyRoute(tool) == tool \in {"ask", "analyze", "checklist", "report"}

\* Routes that check the request before calling the gate: lines 232
\* (insertQuestionSchema.parse) and 265 (`if (!req.file)`); checklist and
\* report parse the body after it (lines 315, 417).
validatesFirst(tool) == tool \in {"ask", "analyze"}

\* A reports route that does not call the gate.
gateCalled_notReport(tool, valid) ==
    tool # "report" /\ ~(validatesFirst(tool) /\ ~valid)

\* Whether a tool's request reaches checkAndIncrementUsage (lines 233, 253,
\* 266, 313, 402).
gateCalled(tool, valid) == ~(validatesFirst(tool) /\ ~valid)

\* TeeCalculator.tsx line 285, BlueprintAnalysis.tsx line 406.
FREE_LIMIT == 10

\* TeeCalculator.tsx line 286, BlueprintAnalysis.tsx line 407, on the row the
\* browser holds.
limitReached(cached) ==
    cached.plan = "free" /\ cached.usesThisMonth >= FREE_LIMIT

\* Dashboard lines 191-193: the usage the quota indicator shows (NULL for a
\* plan without limit).
usesUsed(cached) ==
    IF PlanLimit(cached.plan) = NULL THEN NULL
    ELSE Min(PlanLimit(cached.plan), cached.usesThisMonth)

\* Accounts near their quota, as requests and the clock leave them.
InitTools ==
    /\ now \in 0 .. TicksPerMonth
    /\ \E plan \in {"free", "starter"} :
       \E n \in (PLAN_LIMITS[plan] - ToolWindow) .. PLAN_LIMITS[plan] :
       \E anchor \in 0 .. now :
           user = [NewUser(anchor) EXCEPT !.plan = plan, !.usesThisMonth = n]
    /\ last = NoRequest
    /\ ledger = NewLedger(now, 0)
    /\ procs = [p \in Procs |-> Idle]
    /\ mail = NewMail(now)
    /\ client = user
    /\ store = NoProjects

\* A request to a server-side tool and what its page does with the answer:
\* POST /api/questions/ask, /api/uploads/analyze, /api/permits/checklist,
\* /api/reports/generate.
ServerTool(tool) ==
    /\ ledger.calls < MaxToolCalls
    /\ \E valid \in BOOLEAN, worked \in BOOLEAN, transport \in Transports :
        LET called == gateCalled(tool, valid)
            decision == IF called THEN gateDecision(user, now) ELSE "Invalid"
            updated == IF decision = "Allowed"
                       THEN incrementUsageCount(user, now) ELSE user
            email == IF called THEN gateEmail(user, now, updated) ELSE "none"
            notified == notify(email, transport)
            produced == decision = "Allowed" /\ valid /\ worked IN
        /\ email = "none" => transport = "ok"
        /\ decision # "Allowed" => worked
        /\ user' = updated
        /\ last' = [NoRequest EXCEPT !.op = "tool", !.tool = tool,
                        !.valid = valid,
                        !.result = routeResult(decision, notified),
                        !.read = user, !.t1 = now, !.t2 = now,
                        !.email = email, !.notified = notified,
                        !.produced = produced]
        /\ ledger' = [ledger EXCEPT !.calls = @ + 1,
                         !.allowed = IF decision = "Allowed" THEN @ + 1 ELSE @,
                         !.denied = IF decision = "Denied" THEN @ + 1 ELSE @]
        /\ client' = IF produced THEN updated ELSE client
    /\ UNCHANGED <<now, procs, mail, store>>

\* onSubmit of a browser-side tool (TeeCalculator.tsx lines 302-320,
\* BlueprintAnalysis.tsx lines 420-424): return when limitReached, else
\* compute and show the result, then POST /api/usage/increment (routes.ts
\* lines 251-260) and refresh the row held on success.
ClientTool(tool) ==
    /\ ledger.calls < MaxToolCalls
    /\ ~limitReached(client)
    /\ \E transport \in Transports, refreshed \in BOOLEAN :
        LET decision == gateDecision(user, now)
            updated == IF decision = "Allowed"
                       THEN incrementUsageCount(user, now) ELSE user
            email == gateEmail(user, now, updated)
            notified == notify(email, transport) IN
        /\ email = "none" => transport = "ok"
        /\ decision = "Allowed" => refreshed
        /\ user' = updated
        /\ last' = [NoRequest EXCEPT !.op = "tool", !.tool = tool,
                        !.result = routeResult(decision, notified),
                        !.read = user, !.t1 = now, !.t2 = now,
                        !.email = email, !.notified = notified,
                        !.produced = TRUE]
        /\ ledger' = [ledger EXCEPT !.calls = @ + 1,
                         !.allowed = IF decision = "Allowed" THEN @ + 1 ELSE @,
                         !.denied = IF decision = "Denied" THEN @ + 1 ELSE @]
        /\ client' = IF refreshed THEN updated ELSE client
    /\ UNCHANGED <<now, procs, mail, store>>

\* GET /api/auth/me (routes.ts lines 203-209) through refreshUser (auth.tsx
\* lines 38-50): the browser holds the row as stored.
AuthMe ==
    /\ client' = user
    /\ last' = [NoRequest EXCEPT !.op = "me", !.read = user,
                    !.t1 = now, !.t2 = now]
    /\ UNCHANGED <<user, now, ledger, procs, mail, store>>

NextTools ==
    \/ \E tool \in ServerTools : ServerTool(tool)
    \/ \E tool \in ClientTools : ClientTool(tool)
    \/ AuthMe
    \/ Tick

SpecTools == InitTools /\ [][NextTools]_vars

\* C15: whenever a tool has performed its operation and produced a result
\* for the user, the gate has been consulted by that request and has let it
\* through: a request the gate refuses produces no result.
C15_NoResultWithoutAllowed ==
    (last.op = "tool" /\ last.produced) => last.result = "Allowed"

\* C16: every tool's request is decided on the one stored count of the
\* account: on a free account with 10 uses in the current month every tool's
\* well-formed request is refused and leaves the row as it is, and a request
\* let through by any tool leaves the stored count, which the gate of every
\* tool reads, one higher.
C16_OneCounterForAllTools ==
    (last.op = "tool" /\ last.tool \in Tools)
    => /\ ( /\ last.valid
            /\ last.read.plan = "free"
            /\ Period(last.read.lastResetDate) = Period(last.t1)
            /\ last.read.usesThisMonth = 10 )
          => (last.result = "Denied" /\ user = last.read)
       /\ ( /\ last.result = "Allowed"
            /\ Period(last.read.lastResetDate) = Period(last.t1) )
          => /\ user.usesThisMonth = last.read.usesThisMonth + 1
             /\ \A tool \in Tools :
                    gateCalled(tool, TRUE)
                    /\ currentCount(user, now) = last.read.usesThisMonth + 1

C16_Witness ==
    /\ last.op = "tool"
    /\ last.tool = "report"
    /\ last.result = "Denied"
    /\ last.read.plan = "free"
    /\ last.read.usesThisMonth = 10
    /\ ledger.allowed = 2
    /\ ledger.denied = 1
    /\ user = last.read

\* C17: the usage the browser is given and shows for an account whose anchor
\* lies in a calendar month before the current one is 0.
C17_ShownUsageFollowsStaleness ==
    ( /\ last.op = "me"
      /\ FiniteQuota(user.plan)
      /\ Period(user.lastResetDate) < Period(now) )
    => (client.usesThisMonth = 0 /\ usesUsed(client) = 0)

(***************************************************************************)
(* Projects and project notes: the routes of routes.ts lines 326-397 and   *)
(* the storage functions of storage.ts lines 217-261, for several users.   *)
(***************************************************************************)
\* The sessions sending requests (`req.session.userId`).
Users == {"u1", "u2"}

\* Project data a request can carry.
Names == {"a", "b"}

\* storage.ts lines 231-236: the row, when it exists and is the user's.
getProject(st, id, userId) ==
    IF st.projects[id] = Absent \/ st.projects[id].userId # userId
    THEN Absent
    ELSE st.projects[id]

\* storage.ts lines 238-241: `update(projects).set(data).where(eq(id))`.
updateProject(st, id, userId, data) ==
    [st EXCEPT !.projects[id] =
        IF @ = Absent THEN @ ELSE [@ EXCEPT !.name = data]]

\* storage.ts lines 243-246: the project's notes, then the project, by id.
deleteProject(st, id, userId) ==
    [projects |-> [st.projects EXCEPT ![id] = Absent],
     notes |-> [n \in NoteIds |->
                  IF st.notes[n] # Absent /\ st.notes[n].projectId = id
                  THEN Absent ELSE st.notes[n]]]

\* storage.ts lines 254-257: `insert(projectNotes).values({projectId,
\* userId, content})`, into a free row.
addProjectNote(st, noteId, projectId, userId) ==
    [st EXCEPT !.notes[noteId] = [projectId |-> projectId, userId |-> userId]]

\* storage.ts lines 259-261: `delete(projectNotes).where(eq(id, noteId))`.
deleteProjectNote(st, noteId, userId) ==
    [st EXCEPT !.notes[noteId] = Absent]

\* The owner of a row, "none" for no row.
OwnerOf(row) == IF row = Absent THEN "none" ELSE row.userId

InitProjects ==
    /\ now = 0
    /\ user = NewUser(0)
    /\ last = NoRequest
    /\ ledger = NewLedger(0, 0)
    /\ procs = [p \in Procs |-> Idle]
    /\ mail = NewMail(0)
    /\ client = user
    /\ store = NoProjects

\* POST /api/projects (routes.ts lines 331-340).
PostProject(u) ==
    /\ \E id \in ProjectIds, data \in Names :
        /\ store.projects[id] = Absent
        /\ store' = [store EXCEPT
                        !.projects[id] = [userId |-> u, name |-> data]]
        /\ last' = [NoRequest EXCEPT !.op = "postProject", !.by = u]
    /\ UNCHANGED <<user, now, ledger, procs, mail, client>>

\* PATCH /api/projects/:id (routes.ts lines 342-354).
PatchProject(u) ==
    /\ \E id \in ProjectIds, data \in Names :
        /\ store' = IF getProject(store, id, u) = Absent
                    THEN store
                    ELSE updateProject(store, id, u, data)
        /\ last' = [NoRequest EXCEPT !.op = "patchProject", !.by = u,
                        !.owner = IF store' = store THEN "none"
                                  ELSE OwnerOf(store.projects[id])]
    /\ UNCHANGED <<user, now, ledger, procs, mail, client>>

\* DELETE /api/projects/:id (routes.ts lines 356-366).
DeleteProject(u) ==
    /\ \E id \in ProjectIds :
        /\ store' = IF getProject(store, id, u) = Absent
                    THEN store
                    ELSE deleteProject(store, id, u)
        /\ last' = [NoRequest EXCEPT !.op = "deleteProject", !.by = u,
                        !.owner = IF store' = store THEN "none"
                                  ELSE OwnerOf(store.projects[id])]
    /\ UNCHANGED <<user, now, ledger, procs, mail, client>>

\* POST /api/projects/:id/notes (routes.ts lines 376-388).
PostNote(u) ==
    /\ \E id \in ProjectIds, noteId \in NoteIds :
        /\ store.notes[noteId] = Absent
        /\ store' = IF getProject(store, id, u) = Absent
                    THEN store
                    ELSE addProjectNote(store, noteId, id, u)
        /\ last' = [NoRequest EXCEPT !.op = "postNote", !.by = u]
    /\ UNCHANGED <<user, now, ledger, procs, mail, client>>

\* DELETE /api/projects/:id/notes/:noteId (routes.ts lines 390-397).
DeleteNote(u) ==
    /\ \E noteId \in NoteIds :
        /\ store' = deleteProjectNote(store, noteId, u)
        /\ last' = [NoRequest EXCEPT !.op = "deleteNote", !.by = u,
                        !.owner = OwnerOf(store.notes[noteId])]
    /\ UNCHANGED <<user, now, ledger, procs, mail, client>>

NextProjects ==
    \/ \E u \in Users : PostProject(u)
    \/ \E u \in Users : PatchProject(u)
    \/ \E u \in Users : DeleteProject(u)
    \/ \E u \in Users : PostNote(u)
    \/ \E u \in Users : DeleteNote(u)

SpecProjects == InitProjects /\ [][NextProjects]_vars

\* C30: a request that updated or deleted a project or a project note was
\* sent by the user who owns the row.
C30_ProjectDataIsolated ==
    ( /\ last.op \in {"patchProject", "deleteProject", "deleteNote"}
      /\ last.owner # "none" )
    => last.owner = last.by

(***************************************************************************)
(* Properties of the gate and the meter, one request at a time.            *)
(***************************************************************************)
PlanChangeOps == {"adminPlan", "cancel", "webhook"}

\* The plans of the registry with no limit (unlimited, pro).
UnlimitedTier(plan) == plan \in DOMAIN PLAN_LIMITS /\ PLAN_LIMITS[plan] = NULL

\* C1: an account on a finite-quota plan that is Current with its usage
\* count below the quota is let through by checkAndIncrementUsage, and when
\* the request is served within that calendar month the stored count is
\* exactly 1 higher than before.
C1_BelowQuotaAllowedPlusOne ==
    ( /\ last.op = "consume"
      /\ FiniteQuota(last.read.plan)
      /\ Period(last.read.lastResetDate) = Period(last.t1)
      /\ last.read.usesThisMonth < PlanLimit(last.read.plan) )
    => /\ last.result = "Allowed"
       /\ Period(last.t2) = Period(last.t1)
            => user.usesThisMonth = last.read.usesThisMonth + 1

C1_Witness ==
    /\ last.op = "consume"
    /\ last.result = "Allowed"
    /\ last.read.plan = "starter"
    /\ Period(last.read.lastResetDate) = Period(last.t2)
    /\ last.read.usesThisMonth = PLAN_LIMITS.starter - 1
    /\ user.usesThisMonth = PLAN_LIMITS.starter

\* C2: an account on a finite-quota plan whose usage count of the current
\* month is at or above the quota is refused, and the stored row is the same
\* after the request as before it.
C2_AtQuotaDeniedUnchanged ==
    ( /\ last.op = "consume"
      /\ FiniteQuota(last.read.plan)
      /\ Period(last.read.lastResetDate) = Period(last.t1)
      /\ last.read.usesThisMonth >= PlanLimit(last.read.plan) )
    => /\ last.result = "Denied"
       /\ user.usesThisMonth = last.read.usesThisMonth
       /\ user = last.read

C2_Witness ==
    /\ last.op = "consume"
    /\ last.result = "Denied"
    /\ last.read.plan = "free"
    /\ last.read.usesThisMonth = PLAN_LIMITS.free
    /\ user.usesThisMonth = PLAN_LIMITS.free
    /\ Period(user.lastResetDate) = Period(now)

\* C5: an account on an unlimited-tier plan is always let through, whatever
\* its stored usage count, and the request still counts: the count goes up
\* by 1 within the month of the anchor and becomes 1 on rollover.
C5_UnlimitedAllowedAndCounted ==
    (last.op = "consume" /\ UnlimitedTier(last.read.plan))
    => /\ last.result = "Allowed"
       /\ user.usesThisMonth =
            IF Period(last.read.lastResetDate) = Period(last.t2)
            THEN last.read.usesThisMonth + 1
            ELSE 1

C5_Witness ==
    /\ last.op = "consume"
    /\ last.result = "Allowed"
    /\ last.read.plan = "unlimited"
    /\ Period(last.read.lastResetDate) = Period(last.t2)
    /\ last.read.usesThisMonth > PLAN_LIMITS.free
    /\ user.usesThisMonth = last.read.usesThisMonth + 1

\* C6: period rollover. When the anchor lies in a calendar month before the
\* month of the increment and the stored count is K > 0, the increment leaves
\* the count at 1 and sets the anchor to the time of the increment.
C6_RolloverResetsToOne ==
    ( /\ last.op = "consume"
      /\ last.result = "Allowed"
      /\ Period(last.read.lastResetDate) < Period(last.t2)
      /\ last.read.usesThisMonth > 0 )
    => /\ user.usesThisMonth = 1
       /\ user.lastResetDate = last.t2

C6_Witness ==
    /\ last.op = "consume"
    /\ last.result = "Allowed"
    /\ Period(last.read.lastResetDate) < Period(last.t2)
    /\ last.read.usesThisMonth = 3
    /\ user.usesThisMonth = 1
    /\ user.lastResetDate = last.t2
    /\ last.t2 % TicksPerMonth = 1

\* C7: an account whose stored plan string is no key of the plan registry is
\* refused by the gate.
C7_UnknownPlanDenied ==
    (last.op = "consume" /\ last.read.plan \notin DOMAIN PLAN_LIMITS)
    => last.result = "Denied"

\* C8: a plan change (admin override, cancellation, payment webhook) leaves
\* the usage count and the period anchor as they were.
C8_PlanChangeKeepsUsage ==
    [][ last'.op \in PlanChangeOps
        => /\ user'.usesThisMonth = user.usesThisMonth
           /\ user'.lastResetDate = user.lastResetDate ]_vars

C8_Witness ==
    /\ last.op = "cancel"
    /\ last.read.plan = "professional"
    /\ user.plan = "free"
    /\ last.read.usesThisMonth = 40
    /\ user.usesThisMonth = 40
    /\ user.lastResetDate = last.read.lastResetDate

\* C9: downgrade non-retroactivity. Once a free-plan account carries a usage
\* count of the current month at or above the free quota (40 after a
\* downgrade), every step that stays within that month and on that plan
\* leaves the row as it is, and every request to the gate is refused.
C9_DowngradedDeniedUntilRollover ==
    [][ ( /\ user.plan = "free"
          /\ user'.plan = "free"
          /\ Period(user.lastResetDate) = Period(now)
          /\ user.usesThisMonth >= PLAN_LIMITS.free
          /\ Period(now') = Period(now) )
        => /\ user' = user
           /\ last'.op = "consume" => last'.result = "Denied" ]_vars

C9_Witness ==
    /\ user.plan = "free"
    /\ user.usesThisMonth = 40
    /\ Period(user.lastResetDate) = Period(now)
    /\ last.op = "consume"
    /\ last.result = "Denied"
    /\ ledger.denied = 1
    /\ ledger.calls = 41

\* C10: on an account that is on the free plan for the whole of a month, the
\* first 10 requests of the month are let through and bring the count to 10;
\* the 11th is the first one refused, and the count stays at 10.
C10_EleventhCallFirstDenied ==
    (user.plan = "free" /\ ~ledger.changed)
    => /\ ledger.allowed = Min(ledger.calls, 10)
       /\ currentCount(user, now) = ledger.allowed
       /\ last.op = "consume" => (last.result = "Allowed" <=> ledger.calls <= 10)

C10_Witness ==
    /\ user.plan = "free"
    /\ ~ledger.changed
    /\ last.op = "consume"
    /\ last.result = "Denied"
    /\ ledger.calls = 11
    /\ ledger.denied = 1
    /\ user.usesThisMonth = 10

\* C13: a request the gate lets through on a finite-quota plan sends the 80%
\* warning exactly when the count it stores is floor(quota * 0.8): 8 on quota
\* 10, 40 on quota 50, 160 on quota 200; no refused request and no request on
\* a plan without quota sends it; on an account that is on the free plan for
\* the whole month it is the 8th request let through that sends it.
C13_WarningAtEightyPercent ==
    LET eighty == [free |-> 8, starter |-> 40, professional |-> 160] IN
    last.op = "consume"
    => /\ FiniteQuota(last.read.plan) => last.read.plan \in DOMAIN eighty
       /\ (last.result = "Allowed" /\ FiniteQuota(last.read.plan))
          => (last.email = "usageWarning80"
              <=> user.usesThisMonth = eighty[last.read.plan])
       /\ last.result = "Denied" => last.email # "usageWarning80"
       /\ ~FiniteQuota(last.read.plan) => last.email = "none"
       /\ (user.plan = "free" /\ ~ledger.changed /\ last.result = "Allowed")
          => (last.email = "usageWarning80" <=> ledger.allowed = 8)

C13_Witness ==
    /\ last.op = "consume"
    /\ last.result = "Allowed"
    /\ last.email = "usageWarning80"
    /\ user.plan = "free"
    /\ ~ledger.changed
    /\ ledger.calls = 8
    /\ user.usesThisMonth = 8

\* C14: the answer of the gate and the row it leaves are those the row read,
\* the plan limit and the clock determine, whether the email the request
\* sends is delivered, fails in the transport, or no email is sent.
C14_DeliveryFailureChangesNothing ==
    last.op = "consume"
    => /\ last.result = gateDecision(last.read, last.t1)
       /\ user = IF gateDecision(last.read, last.t1) = "Allowed"
                 THEN incrementUsageCount(last.read, last.t2)
                 ELSE last.read

C14_Witness ==
    /\ last.op = "consume"
    /\ last.email = "usageLimitReached"
    /\ last.notified = "logged"
    /\ last.result = "Denied"
    /\ user = last.read
    /\ user.usesThisMonth = 10

\* C18: the plan stored on the account is always one of free, starter,
\* professional, unlimited, whatever the admin plan route and the payment
\* webhook are given.
C18_PlanInClosedTierSet ==
    user.plan \in {"free", "starter", "professional", "unlimited"}

\* C19: a step that leaves the plan of a finite-quota account as it is (a
\* request through the gate, a tick of the clock) takes a usage count between
\* 0 and the plan's quota to a usage count between 0 and the plan's quota.
C19_CountWithinQuota ==
    [][ ( /\ FiniteQuota(user.plan)
          /\ user'.plan = user.plan
          /\ 0 <= user.usesThisMonth
          /\ user.usesThisMonth <= PlanLimit(user.plan) )
        => ( /\ 0 <= user'.usesThisMonth
             /\ user'.usesThisMonth <= PlanLimit(user.plan) ) ]_vars

C19_Witness ==
    /\ last.op = "consume"
    /\ last.result = "Allowed"
    /\ last.read.plan = "starter"
    /\ user.plan = "starter"
    /\ user.usesThisMonth = 50
    /\ Period(user.lastResetDate) = Period(now)

\* C20: a request on a finite-quota plan whose anchor, when the gate reads the
\* row, lies in a calendar month before the current one is let through
\* whatever the stored count (at or above the quota included) and leaves the
\* count at 1; the usage the gate counts for such a stale row is 0.
C20_StaleAccountAllowedCountOne ==
    /\ ( /\ last.op = "consume"
         /\ FiniteQuota(last.read.plan)
         /\ Period(last.read.lastResetDate) < Period(last.t1) )
       => /\ last.result = "Allowed"
          /\ user.usesThisMonth = 1
          /\ user.lastResetDate = last.t2
    /\ Period(user.lastResetDate) < Period(now) => currentCount(user, now) = 0

C20_Witness ==
    /\ last.op = "consume"
    /\ last.read.plan = "free"
    /\ last.read.usesThisMonth = 40
    /\ Period(last.read.lastResetDate) < Period(last.t1)
    /\ getMonth(last.read.lastResetDate) = getMonth(last.t1)
    /\ last.result = "Allowed"
    /\ user.usesThisMonth = 1

\* C21: a plan change keeps the usage accumulated in the month (the stored
\* count of a Current row is the number of requests let through in the
\* month), and in a month that has seen a refusal and a plan change a request
\* on a finite-quota plan whose quota is above the stored count N is let
\* through and leaves the count at N + 1.
C21_UpgradeKeepsUsage ==
    /\ Period(user.lastResetDate) = Period(now)
       => user.usesThisMonth = ledger.allowed
    /\ ( /\ last.op = "consume"
         /\ ledger.changed
         /\ ledger.denied >= 1
         /\ FiniteQuota(last.read.plan)
         /\ Period(last.read.lastResetDate) = Period(last.t1)
         /\ Period(last.t2) = Period(last.t1)
         /\ last.read.usesThisMonth < PlanLimit(last.read.plan) )
       => /\ last.result = "Allowed"
          /\ user.usesThisMonth = last.read.usesThisMonth + 1

C21_Witness ==
    /\ last.op = "consume"
    /\ last.result = "Allowed"
    /\ ledger.changed
    /\ ledger.denied = 1
    /\ ledger.calls = 12
    /\ user.plan = "starter"
    /\ user.stripeCustomerId # NoId
    /\ last.read.usesThisMonth = 10
    /\ user.usesThisMonth = 11

\* C22: the account as registration leaves it is on the free plan with
\* usage count 0 and its anchor at the time of creation, and a request on a
\* free account with stored count 0 is let through and leaves the count at 1.
C22_NewAccountFirstCallAllowed ==
    /\ last.op = "none"
       => /\ user.plan = "free"
          /\ user.usesThisMonth = 0
          /\ user.lastResetDate = now
    /\ ( /\ last.op = "consume"
         /\ last.read.plan = "free"
         /\ last.read.usesThisMonth = 0 )
       => /\ last.result = "Allowed"
          /\ user.usesThisMonth = 1

C22_Witness ==
    /\ last.op = "consume"
    /\ last.result = "Allowed"
    /\ last.read.plan = "free"
    /\ last.read.usesThisMonth = 0
    /\ last.read.lastResetDate = 0
    /\ last.read.stripeCustomerId = NoId
    /\ last.t1 = 0
    /\ ledger.calls = 1
    /\ user.usesThisMonth = 1

\* C23: a step that stays within the calendar month and does not write the
\* usage count or the anchor leaves the effective current usage as it was,
\* and a refused request leaves every stored field as it was.
C23_CurrentUsageRepeatable ==
    [][ /\ ( /\ Period(now') = Period(now)
             /\ user'.usesThisMonth = user.usesThisMonth
             /\ user'.lastResetDate = user.lastResetDate )
           => currentCount(user', now') = currentCount(user, now)
        /\ (last'.op = "consume" /\ last'.result = "Denied")
           => user' = user ]_vars

C23_Witness ==
    /\ last.op = "consume"
    /\ last.result = "Denied"
    /\ ledger.denied = 2
    /\ now % TicksPerMonth = 1
    /\ Period(user.lastResetDate) = Period(now)
    /\ currentCount(user, now) = 10
    /\ user = last.read

\* C26: a refused request sends the usage-limit-reached email exactly when
\* the count it was refused at equals the quota; refused with the count
\* above the quota it sends no email.
C26_LimitEmailOnlyAtQuota ==
    (last.op = "consume" /\ last.result = "Denied")
    => /\ last.email = "usageLimitReached"
          <=> last.read.usesThisMonth = PlanLimit(last.read.plan)
       /\ last.read.usesThisMonth > PlanLimit(last.read.plan)
          => last.email = "none"

C26_Witness ==
    /\ last.op = "consume"
    /\ last.result = "Denied"
    /\ last.read.plan = "free"
    /\ last.read.usesThisMonth = 40
    /\ last.email = "none"
    /\ ledger.denied = 2

\* C27: a row is Current exactly when the month and the year of its anchor
\* are those of the clock, which is when both lie in one calendar month; a
\* request on a finite-quota plan whose anchor is in the same month of an
\* earlier year is let through and leaves the count at 1; and the count an
\* increment stores is the count the gate counted plus 1 (both decide
\* staleness alike) when both read the clock at the same time.
C27_StalenessOnMonthAndYear ==
    /\ sameMonth(now, user.lastResetDate)
       <=> Period(now) = Period(user.lastResetDate)
    /\ ( /\ last.op = "consume"
         /\ FiniteQuota(last.read.plan)
         /\ getMonth(last.read.lastResetDate) = getMonth(last.t1)
         /\ getFullYear(last.read.lastResetDate) < getFullYear(last.t1) )
       => /\ last.result = "Allowed"
          /\ user.usesThisMonth = 1
          /\ user.lastResetDate = last.t2
    /\ (last.op = "consume" /\ last.result = "Allowed" /\ last.t1 = last.t2)
       => user.usesThisMonth = currentCount(last.read, last.t1) + 1

C27_Witness ==
    /\ last.op = "consume"
    /\ last.result = "Allowed"
    /\ last.read.plan = "starter"
    /\ last.read.usesThisMonth = 2
    /\ getMonth(last.read.lastResetDate) = getMonth(last.t1)
    /\ getFullYear(last.read.lastResetDate) < getFullYear(last.t1)
    /\ last.t1 = last.t2
    /\ user.usesThisMonth = 1

\* C28: after a request that was let through, the anchor lies in the
\* calendar month of the increment and the count is at least 1; the plan is
\* the plan read, and when the row read was already in that month the anchor
\* is the anchor read.
C28_CurrentAfterIncrement ==
    (last.op = "consume" /\ last.result = "Allowed")
    => /\ Period(user.lastResetDate) = Period(last.t2)
       /\ user.usesThisMonth >= 1
       /\ user.plan = last.read.plan
       /\ Period(last.read.lastResetDate) = Period(last.t2)
          => user.lastResetDate = last.read.lastResetDate

C28_Witness ==
    /\ last.op = "consume"
    /\ last.result = "Allowed"
    /\ Period(last.read.lastResetDate) = Period(last.t2)
    /\ last.read.lastResetDate < last.t2
    /\ user.lastResetDate = last.read.lastResetDate
    /\ user.usesThisMonth = last.read.usesThisMonth + 1
    /\ user.usesThisMonth = 4

\* C29: a request the gate let through whose operation then produced no
\* result (the AI call failed, or the body of a checklist or report request
\* failed validation, which those routes run after the gate) leaves the usage
\* count incremented; a malformed checklist or report request does reach the
\* gate.
C29_UseNotGivenBack ==
    last.op = "tool"
    => /\ (last.result = "Allowed" /\ ~last.produced)
          => user.usesThisMonth =
                 IF Period(last.read.lastResetDate) = Period(last.t2)
                 THEN last.read.usesThisMonth + 1 ELSE 1
       /\ (last.tool \in {"checklist", "report"} /\ ~last.valid)
          => last.result \in {"Allowed", "Denied"}

C29_Witness ==
    /\ last.op = "tool"
    /\ last.tool = "checklist"
    /\ ~last.valid
    /\ last.result = "Allowed"
    /\ ~last.produced
    /\ last.read.usesThisMonth = 9
    /\ user.usesThisMonth = 10

=============================================================================
